---------------------------- MODULE Spec2Model ----------------------------
(***************************************************************************)
(* A model of run_nerf.py: the pixel-selection part of train()'s loop      *)
(* (warm-up crop, none/uniform, multinomial, rejection and                 *)
(* Metropolis-Hastings policies with their per-image state, the heat      *)
(* update, random ray batching), the end of an iteration with its          *)
(* checkpoint and its accept_rate scalar, a restart from the last          *)
(* checkpoint, the ray-level chunking of batchify_rays, render_rays with   *)
(* raw2outputs for one ray, and the point-level chunking of run_network.   *)
(*                                                                         *)
(* Numbers.  Probability-map values are kept exactly, as integers in units *)
(* of 1e-7 (the epsilon of the Metropolis-Hastings denominator), so that   *)
(* 1.0 is 10^7 units.  A torch.rand draw is k / 2^24 for an integer k in   *)
(* 0 .. 2^24-1 (the float32 grid of [0,1)).  Products of two such numbers  *)
(* exceed 32 bits, so they are compared limb-wise (Mul, Leq2, Less2).      *)
(* Gaussian noise is kept in quarters of a pixel, so that the code's       *)
(* modulo and its round-half-to-even are computed, not assumed.            *)
(* The renderer's opacities and weights are fixed-point numbers in units   *)
(* of 1e-10 (the epsilon of the transmittance product); float32 rounding   *)
(* is not modelled.                                                        *)
(***************************************************************************)
EXTENDS Integers, Sequences, FiniteSets, TLC

VARIABLES
    args,           \* the run's configuration (argparse namespace)
    i,              \* loop variable of "for i in trange(start, N_iters)"
    pc,             \* position in the loop body
    img_i,          \* image drawn for this step
    prob_map,       \* per image, per pixel sampling probability (units of 1e-7)
    prev_sample,    \* per image, the N_rand coordinates of the last selection
    bound,          \* names of train()'s locals that are bound so far
    coords,         \* local "coords": the flattened coordinate grid last built
    select_coords,  \* local "select_coords": this step's selection
    branch,         \* which branch of the if/elif chain ran in this step
    num,            \* rejection: pixels collected so far
    counter,        \* rejection: threshold draws so far
    next_sample,    \* Metropolis-Hastings: proposed coordinates
    rand_image,     \* Metropolis-Hastings: the uniform draws (numerators over 2^24)
    accept,         \* Metropolis-Hastings: local "accept"
    err,            \* the exception that ended train(), or "none"
    touched,        \* coordinates handed to the last update_heat_map call
    samples,        \* multinomial: local "samples", the flat indices drawn
    has_prev,       \* history: the images whose prev_sample entry has been stored
    rays_rgb,       \* batching: the shuffled rays, each as <<image, row, column>>
    i_batch,        \* batching: offset of the next batch in rays_rgb
    batch,          \* batching: the rays of this step's batch (hwindi, hi, wi)
    served,         \* history: the rays handed out since the last shuffle
    start,          \* local "start": the first iteration of this process
    global_step,    \* local "global_step"
    ckpts,          \* the checkpoint files: iteration of the name, global_step inside
    scalars,        \* the accept_rate scalars written: <<accepted, numel, step>>
    accept_of,      \* history: the iteration and image "accept" was computed for
    rays_flat,      \* batchify_rays: the ray batch
    chunk,          \* batchify_rays: chunk size
    kwargs,         \* batchify_rays: render_rays keyword arguments
    bi,             \* batchify_rays: loop variable of range(0, R, chunk)
    all_ret,        \* batchify_rays: key -> list of chunk results, then the result
    t_rand_all,     \* the jitter draws consumed so far, in consumption order
    bpc,            \* batchify_rays: position
    rcall,          \* render_rays: the call (one ray, the networks, the keyword arguments)
    loc,            \* render_rays: its locals, and the dictionary it returns
    rpc,            \* render_rays: position
    stdout,         \* render_rays: the keys reported by the print of line 417
    DEBUG,          \* the module's DEBUG flag (line 25)
    net             \* run_network: its arguments, its locals and its position

batchVars == <<rays_rgb, i_batch, batch, served>>
logVars == <<start, global_step, ckpts, scalars, accept_of>>
trainVars == <<args, i, pc, img_i, prob_map, prev_sample, bound, coords,
               select_coords, branch, num, counter, next_sample, rand_image,
               accept, err, touched, samples, has_prev, batchVars, logVars>>
chunkVars == <<rays_flat, chunk, kwargs, bi, all_ret, t_rand_all, bpc>>
renderVars == <<rcall, loc, rpc, stdout, DEBUG>>
netVars == <<net>>
callVars == <<chunkVars, renderVars, netVars>>
vars == <<args, i, pc, img_i, prob_map, prev_sample, bound, coords,
          select_coords, branch, num, counter, next_sample, rand_image,
          accept, err, touched, samples, has_prev, rays_rgb, i_batch, batch,
          served, start, global_step, ckpts, scalars, accept_of,
          rays_flat, chunk, kwargs, bi, all_ret, t_rand_all, bpc,
          rcall, loc, rpc, stdout, DEBUG, net>>

---------------------------------------------------------------------------
(* Bounds of the model *)

H == 2
W == 3
NumImages == 2
MaxIter == 2
MaxNRand == 2
MaxRays == 3
MaxChunk == 4
MaxRayVal == 2
MaxBatchIter == 6
MaxBatchNRand == 4

(* Program constants *)

EpsInv == 10000000
RandDen == 2^24
RetryBudget == 1000

\* the defaults of --i_print and --i_weights
DefaultPrint == 500
DefaultWeights == 20000
Limb == 2^12

ONE == EpsInv
HALF == EpsInv \div 2

\* the training images (i_train): the images the maps are kept for
Images == DOMAIN prob_map
Rows == 0 .. H - 1
Cols == 0 .. W - 1
Pixels == Rows \X Cols

---------------------------------------------------------------------------
(* Exact arithmetic on numbers below 2^26 *)

\* a * b as <<hi, lo>> in base Limb^2, for 0 <= a, b < 2^26
Mul(a, b) ==
    LET a1 == a \div Limb
        a0 == a % Limb
        b1 == b \div Limb
        b0 == b % Limb
        cross == a1 * b0 + a0 * b1
        lo == (cross % Limb) * Limb + a0 * b0
    IN  <<a1 * b1 + (cross \div Limb) + (lo \div (Limb * Limb)), lo % (Limb * Limb)>>

Less2(x, y) == x[1] < y[1] \/ (x[1] = y[1] /\ x[2] < y[2])
Leq2(x, y) == x[1] < y[1] \/ (x[1] = y[1] /\ x[2] <= y[2])

\* the sum over a sequence / over the pixels of a map
RECURSIVE SumSeq(_)
SumSeq(s) == IF s = <<>> THEN 0 ELSE Head(s) + SumSeq(Tail(s))

\* torch.meshgrid(linspace(r0, r1, nr), linspace(c0, c1, nc)) stacked and reshaped
\* to [-1, 2]: the coordinate pairs in row-major order
Grid(r0, nr, c0, nc) ==
    [k \in 1 .. nr * nc |-> <<r0 + ((k - 1) \div nc), c0 + ((k - 1) % nc)>>]

FullGrid == Grid(0, H, 0, W)

\* prob_map[img].flatten(): row-major
Flatten(m) == [k \in 1 .. H * W |-> m[FullGrid[k]]]

\* the injective sequences of length n over 1..m: np.random.choice(m, size=[n],
\* replace=False); empty when n > m (numpy raises ValueError)
Choices(m, n) ==
    {s \in [1 .. n -> 1 .. m] : \A a, b \in 1 .. n : a # b => s[a] # s[b]}

---------------------------------------------------------------------------
(* The runs that are explored *)

SamplingTypes == {"none", "multinomial", "rejection", "metropolis-hastings"}

\* precrop_iters with precrop_frac (numerator, denominator): the defaults, 0 and
\* .5, or a warm-up of one iteration on the crop that precrop_frac = 1 leaves.
\* (On this grid precrop_frac = .5 leaves no pixel at all: int(1 * .5) = 0.)
Precrops == {<<0, <<1, 2>>>>, <<2, <<1, 1>>>>}

\* without --image_sampling the sampling type and --global_sampling are never
\* read: they keep their defaults.  These are the runs with --no_batching; the
\* global heat update is explored with the multinomial policy.
Configs ==
    {c \in [sampling_type : SamplingTypes, image_sampling : BOOLEAN,
            precrop_iters : {p[1] : p \in Precrops},
            precrop_frac : {p[2] : p \in Precrops}, N_rand : 1 .. MaxNRand,
            no_batching : {TRUE}, global_sampling : BOOLEAN,
            i_print : {DefaultPrint}, i_weights : {DefaultWeights}, N_importance : {0}] :
        /\ <<c.precrop_iters, c.precrop_frac>> \in Precrops
        /\ (~c.image_sampling => c.sampling_type = "multinomial")
        /\ (c.global_sampling => c.image_sampling /\ c.sampling_type = "multinomial")}

\* torch.rand draws that are explored: 0, 1/2 and the largest float below 1
RandVals == {0, RandDen \div 2, RandDen - 1}

\* torch.normal draws that are explored, in quarters of a pixel
NoiseVals == {-2, 0, 3}

\* the per-pixel values update_heat_map derives from a step's errors: no error
\* anywhere, or an error of 1.0 everywhere
ErrMaps == {[px \in Pixels |-> 0], [px \in Pixels |-> ONE]}

\* prob_map = torch.ones(...), or the outcome of --initialize loss / edge
InitMaps ==
    {[px \in Pixels |-> ONE],
     [px \in Pixels |-> 0],
     [px \in Pixels |-> IF px = <<0, 0>> THEN 0 ELSE HALF]}

ZeroSample(n) == [k \in 1 .. n |-> <<0, 0>>]

\* a store that writes the set into the row of every image
StorePrevAll(ps, img, sel) == [im \in DOMAIN ps |-> sel]

\* lines 990 and 1005: prev_sample[img_i] = select_coords
StorePrev(ps, img, sel) == [ps EXCEPT ![img] = sel]

\* the iterations start+1 .. MaxIter of a run that take the rejection branch
RejectionSteps(c, first) ==
    {j \in first + 1 .. MaxIter :
        ~(j < c.precrop_iters) /\ c.image_sampling /\ c.sampling_type = "rejection"}

\* the runs that are explored: a configuration, the number of training images, the
\* step of the checkpoint the run resumes from (0: none) and the initial map of
\* every image.  The largest batches go with the fewest images, and a run enters
\* the rejection loop, with its thousand passes, in one iteration only.
Runs ==
    {r \in [cfg : Configs, n : 1 .. NumImages, start : 0 .. MaxIter - 1, map : InitMaps] :
        /\ r.cfg.N_rand + r.n <= MaxNRand + 1
        /\ (~r.cfg.image_sampling => r.map = [px \in Pixels |-> ONE])
        /\ (r.cfg.sampling_type = "rejection" =>
                /\ r.cfg.N_rand = 1
                /\ r.n = 1
                /\ Cardinality(RejectionSteps(r.cfg, r.start)) <= 1
                /\ (r.start + 1 < r.cfg.precrop_iters => r.map = [px \in Pixels |-> ONE]))}

---------------------------------------------------------------------------
(* train(): state before the first iteration (lines 770-869) *)

\* lines 811-823: one entry per training image and pixel, images in order,
\* pixels row-major, each with its image index (hwind) and its row and column
AllRays(n) ==
    [e \in 1 .. n * H * W |->
        <<(e - 1) \div (H * W), ((e - 1) % (H * W)) \div W, (e - 1) % W>>]

\* np.random.shuffle / torch.randperm: the orders that are explored are the
\* rotations of the sequence
Shuffles(s) ==
    {[k \in 1 .. Len(s) |-> s[((k - 1 + r) % Len(s)) + 1]] : r \in 0 .. Len(s) - 1}

InitRun(r) ==
    /\ args = r.cfg
    /\ i = r.start + 1
    /\ pc = "select"
    /\ img_i = 0
    /\ prob_map = [im \in 0 .. r.n - 1 |-> r.map]
    /\ prev_sample = [im \in 0 .. r.n - 1 |-> ZeroSample(r.cfg.N_rand)]
    /\ bound = {}
    /\ coords = <<>>
    /\ select_coords = <<>>
    /\ branch = "none"
    /\ num = 0
    /\ counter = 0
    /\ next_sample = <<>>
    /\ rand_image = <<>>
    /\ accept = <<>>
    /\ err = "none"
    /\ touched = <<>>
    /\ samples = <<>>
    /\ has_prev = {}
    /\ rays_rgb \in (IF r.cfg.no_batching THEN {<<>>} ELSE Shuffles(AllRays(r.n)))
    /\ i_batch = 0
    /\ batch = <<>>
    /\ served = <<>>
    /\ start = r.start + 1
    /\ global_step = r.start
    /\ ckpts = IF r.start = 0 THEN {} ELSE {[i |-> r.start + 1, global_step |-> r.start]}
    /\ scalars = <<>>
    /\ accept_of = <<>>

IdleChunk ==
    /\ rays_flat = <<>>
    /\ chunk = 1
    /\ kwargs = [perturb |-> FALSE, N_importance |-> 0, retraw |-> FALSE]
    /\ bi = 0
    /\ all_ret = <<>>
    /\ t_rand_all = <<>>
    /\ bpc = "idle"

\* render_rays before its first line: no local is bound
NoLocals ==
    [nominal |-> <<>>, lower |-> <<>>, upper |-> <<>>, t_rand |-> <<>>,
     z_vals |-> <<>>, raw |-> <<>>, out |-> <<>>, out0 |-> <<>>,
     coarse |-> <<>>, z_samples |-> <<>>, ret |-> <<>>]

\* no render_rays call is being followed
IdleRender ==
    /\ rcall = [near |-> 0, far |-> 0, d_norm |-> 1, network_fn |-> "empty",
                network_fine |-> "None", N_samples |-> 1, retraw |-> FALSE,
                lindisp |-> FALSE, perturb |-> FALSE, N_importance |-> 0]
    /\ loc = NoLocals
    /\ rpc = "idle"
    /\ stdout = {}
    /\ DEBUG = FALSE

\* no run_network call is being followed
IdleNet ==
    net = [inputs |-> <<>>, viewdirs |-> <<>>, netchunk |-> 1, embedded |-> <<>>,
           i |-> 0, parts |-> <<>>, outputs |-> <<>>, pc |-> "idle"]

IdleTrain ==
    /\ args = [sampling_type |-> "multinomial", image_sampling |-> FALSE,
               precrop_iters |-> 0, precrop_frac |-> <<1, 2>>, N_rand |-> 1,
               no_batching |-> TRUE, global_sampling |-> FALSE,
               i_print |-> DefaultPrint, i_weights |-> DefaultWeights, N_importance |-> 0]
    /\ i = 1
    /\ pc = "idle"
    /\ img_i = 0
    /\ prob_map = [im \in {0} |-> [px \in Pixels |-> ONE]]
    /\ prev_sample = [im \in {0} |-> ZeroSample(1)]
    /\ bound = {}
    /\ coords = <<>>
    /\ select_coords = <<>>
    /\ branch = "none"
    /\ num = 0
    /\ counter = 0
    /\ next_sample = <<>>
    /\ rand_image = <<>>
    /\ accept = <<>>
    /\ err = "none"
    /\ touched = <<>>
    /\ samples = <<>>
    /\ has_prev = {}
    /\ rays_rgb = <<>>
    /\ i_batch = 0
    /\ batch = <<>>
    /\ served = <<>>
    /\ start = 1
    /\ global_step = 0
    /\ ckpts = {}
    /\ scalars = <<>>
    /\ accept_of = <<>>

\* an exception leaves train(): nothing else changes
Raise(e, img, br) ==
    /\ err' = e
    /\ pc' = "error"
    /\ img_i' = img
    /\ branch' = br

\* select_inds = np.random.choice(coords.shape[0], size=[N_rand], replace=False)
\* select_coords = coords[select_inds].long()
UniformPicks(grid, n) ==
    {[k \in 1 .. n |-> grid[s[k]]] : s \in Choices(Len(grid), n)}

\* dH = int(H//2 * precrop_frac), dW = int(W//2 * precrop_frac) and the crop grid
CropD(size, frac) == ((size \div 2) * frac[1]) \div frac[2]

CropGrid(frac) ==
    Grid((H \div 2) - CropD(H, frac), 2 * CropD(H, frac),
         (W \div 2) - CropD(W, frac), 2 * CropD(W, frac))

\* lines 942-945, 948-951 and 987-990: a uniform draw from a freshly built grid,
\* stored as the image's previous sample
SelectFromGrid(img, grid, br) ==
    /\ coords' = grid
    /\ bound' = bound \cup {"coords"}
    /\ IF args.N_rand > Len(grid)
       THEN /\ Raise("ValueError", img, br)
            /\ UNCHANGED <<select_coords, prev_sample, has_prev>>
       ELSE /\ \E sel \in UniformPicks(grid, args.N_rand) :
                /\ select_coords' = sel
                /\ prev_sample' = StorePrev(prev_sample, img, sel)
            /\ has_prev' = has_prev \cup {img}
            /\ img_i' = img
            /\ branch' = br
            /\ pc' = "selected"
            /\ err' = err
    /\ UNCHANGED <<args, i, prob_map, num, counter, next_sample, rand_image,
                   accept, touched, samples, batchVars, logVars, callVars>>

\* lines 931-945
WarmupCrop ==
    /\ pc = "select"
    /\ i <= MaxIter
    /\ args.no_batching
    /\ i < args.precrop_iters
    /\ \E img \in Images : SelectFromGrid(img, CropGrid(args.precrop_frac), "crop")

\* lines 946-951
SelectNone ==
    /\ pc = "select"
    /\ i <= MaxIter
    /\ args.no_batching
    /\ ~(i < args.precrop_iters)
    /\ (~args.image_sampling \/ args.sampling_type = "none")
    /\ \E img \in Images : SelectFromGrid(img, FullGrid, "none")

---------------------------------------------------------------------------
(* multinomial, lines 952-962 *)

\* torch.multinomial(p, n, False) on the flattened map p (flat indices 0 .. H*W-1):
\* n distinct indices.  Zero-weight indices are drawn only when fewer than n
\* indices have weight, and then only by the samplers that do not raise.
MultinomialDraws(p, n) ==
    LET pos == {x \in 0 .. Len(p) - 1 : p[x + 1] > 0}
    IN  {smp \in [1 .. n -> 0 .. Len(p) - 1] :
            /\ \A a, b \in 1 .. n : a # b => smp[a] # smp[b]
            /\ IF Cardinality(pos) >= n
               THEN \A a \in 1 .. n : smp[a] \in pos
               ELSE \A x \in pos : \E a \in 1 .. n : smp[a] = x}

DecodeByHeight(smp) == [k \in DOMAIN smp |-> <<smp[k] \div H, smp[k] % H>>]

\* inds_w = samples % W; inds_h = (samples / W).long(); cat((inds_h, inds_w))
DecodeFlat(smp) == [k \in DOMAIN smp |-> <<smp[k] \div W, smp[k] % W>>]

\* what torch.multinomial does when fewer than n entries are non-zero depends on
\* the sampler of the build: it raises, or it fills up with zero-weight indices
SelectMultinomial ==
    /\ pc = "select"
    /\ i <= MaxIter
    /\ args.no_batching
    /\ ~(i < args.precrop_iters)
    /\ args.image_sampling
    /\ args.sampling_type = "multinomial"
    /\ \E img \in Images :
        LET p == Flatten(prob_map[img])
            npos == Cardinality({x \in 1 .. Len(p) : p[x] > 0})
        IN  \E outcome \in (IF npos = 0 \/ args.N_rand > Len(p) THEN {"raise"}
                            ELSE IF npos < args.N_rand THEN {"raise", "sample"}
                            ELSE {"sample"}) :
              IF outcome = "raise"
              THEN /\ Raise("RuntimeError", img, "multinomial")
                   /\ UNCHANGED <<select_coords, bound, samples>>
              ELSE /\ \E smp \in MultinomialDraws(p, args.N_rand) :
                        /\ samples' = smp
                        /\ select_coords' = DecodeFlat(smp)
                   /\ img_i' = img
                   /\ branch' = "multinomial"
                   /\ pc' = "selected"
                   /\ UNCHANGED <<err, bound>>
    /\ UNCHANGED <<args, i, prob_map, prev_sample, coords, num, counter,
                   next_sample, rand_image, accept, touched, has_prev, batchVars, logVars,
                   callVars>>

---------------------------------------------------------------------------
(* rejection, lines 963-983 *)

MapSum(m) == SumSeq(Flatten(m))

\* pinds = torch.where(rand_image < prob_map[img_i]) with
\* rand_image = torch.rand(H, W) * prob_map[img_i].sum(): row-major coordinates
RECURSIVE Filter(_, _)
Filter(s, keep) ==
    IF s = <<>> THEN <<>>
    ELSE IF Head(s) \in keep THEN <<Head(s)>> \o Filter(Tail(s), keep)
    ELSE Filter(Tail(s), keep)

\* a threshold test that lets equality pass
BelowOrEqual(u, sum, p) == Leq2(Mul(u, sum), Mul(p, RandDen))

\* the draw u over RandDen, scaled by the map's sum, is below the value p
Below(u, sum, p) == Less2(Mul(u, sum), Mul(p, RandDen))

\* the sets {px : rand_image[px] < m[px]} over all fields of draws: a pixel is in
\* or out as one of its draws puts it
ThresholdOutcomes(m) ==
    LET sum == MapSum(m)
        in == {px \in Pixels : \E u \in RandVals : Below(u, sum, m[px])}
        out == {px \in Pixels : \E u \in RandVals : ~Below(u, sum, m[px])}
    IN  {A \in SUBSET in : (Pixels \ A) \subseteq out}

\* lines 969-975: pinds, in row-major order, cut down to the need pixels still
\* wanted by np.random.choice(pinds.shape[0], size=[need], replace=False)
PindsOutcomes(m, need) ==
    UNION {LET found == Filter(FullGrid, A)
           IN  IF Len(found) > need THEN UniformPicks(found, need) ELSE {found} :
           A \in ThresholdOutcomes(m)}

BudgetExhaustedLate(c) == c > RetryBudget + 1

\* line 979: if counter > 1000
BudgetExhausted(c) == c > RetryBudget

\* lines 964-966 and the first test of "while num < N_rand"
RejectionStart ==
    /\ pc = "select"
    /\ i <= MaxIter
    /\ args.no_batching
    /\ ~(i < args.precrop_iters)
    /\ args.image_sampling
    /\ args.sampling_type = "rejection"
    /\ \E img \in Images : img_i' = img
    /\ num' = 0
    /\ counter' = 0
    /\ select_coords' = <<>>
    /\ branch' = "rejection"
    /\ pc' = IF 0 < args.N_rand THEN "rejection" ELSE "selected"
    /\ UNCHANGED <<args, i, prob_map, prev_sample, bound, coords, next_sample,
                   rand_image, accept, err, touched, samples, has_prev, batchVars, logVars,
                   callVars>>

\* one pass of the while body, lines 968-983, and the loop test that follows it
RejectionDraw ==
    /\ pc = "rejection"
    /\ num < args.N_rand
    /\ counter' = counter + 1
    /\ \E pinds \in PindsOutcomes(prob_map[img_i], args.N_rand - num) :
            LET sel1 == select_coords \o pinds
                num1 == num + Len(pinds)
            IN  IF BudgetExhausted(counter + 1)
                THEN IF "coords" \notin bound
                     THEN /\ Raise("UnboundLocalError", img_i, branch)
                          /\ select_coords' = sel1
                          /\ num' = num1
                     ELSE IF args.N_rand > Len(coords)
                     THEN /\ Raise("ValueError", img_i, branch)
                          /\ select_coords' = sel1
                          /\ num' = num1
                     ELSE /\ \E sel \in UniformPicks(coords, args.N_rand) :
                                select_coords' = sel
                          /\ num' = num1 + args.N_rand
                          /\ pc' = "selected"
                          /\ UNCHANGED <<err, img_i, branch>>
                ELSE /\ select_coords' = sel1
                     /\ num' = num1
                     /\ pc' = IF num1 < args.N_rand THEN "rejection" ELSE "selected"
                     /\ UNCHANGED <<err, img_i, branch>>
    /\ UNCHANGED <<args, i, prob_map, prev_sample, bound, coords, next_sample,
                   rand_image, accept, touched, samples, has_prev, batchVars, logVars, callVars>>

---------------------------------------------------------------------------
(* Metropolis-Hastings, lines 984-1005 *)

\* prev_sample[img_i].sum()
RECURSIVE CoordSum(_)
CoordSum(cs) ==
    IF cs = <<>> THEN 0 ELSE Head(cs)[1] + Head(cs)[2] + CoordSum(Tail(cs))

\* torch.round of v4 / 4: to the nearest integer, halves to the even one
Round4(v4) ==
    LET q == v4 \div 4
        r == v4 % 4
    IN  IF r < 2 THEN q
        ELSE IF r > 2 THEN q + 1
        ELSE IF q % 2 = 0 THEN q ELSE q + 1

WrapModSize(c, n4, m) == Round4((4 * c + n4) % (4 * (m + 1)))

\* round((c + noise) % m), the noise n4 in quarters (lines 992-995)
Wrap(c, n4, m) == Round4((4 * c + n4) % (4 * m))

Propose(prev, noise) ==
    [k \in DOMAIN prev |->
        <<Wrap(prev[k][1], noise[k][1], H - 1), Wrap(prev[k][2], noise[k][2], W - 1)>>]

AcceptsNoEps(u, prev_heat, next_heat) ==
    Leq2(Mul(u, prev_heat), Mul(next_heat, RandDen))

\* rand <= next_heat / (prev_heat + 1e-7), the draw u over RandDen (lines 1000-1002)
Accepts(u, prev_heat, next_heat) ==
    Leq2(Mul(u, prev_heat + 1), Mul(next_heat, RandDen))

WhereAny(acc, nxt, prev) ==
    IF \E k \in DOMAIN acc : acc[k] THEN nxt ELSE prev

\* torch.where(accept.unsqueeze(-1).repeat(1, 2), next_sample, prev_sample[img_i])
Where(acc, nxt, prev) == [k \in DOMAIN acc |-> IF acc[k] THEN nxt[k] ELSE prev[k]]

\* lines 985-990
SelectMHSeed ==
    /\ pc = "select"
    /\ i <= MaxIter
    /\ args.no_batching
    /\ ~(i < args.precrop_iters)
    /\ args.image_sampling
    /\ args.sampling_type = "metropolis-hastings"
    /\ \E img \in Images :
        /\ CoordSum(prev_sample[img]) = 0
        /\ SelectFromGrid(img, FullGrid, "mh_seed")

\* lines 991-1005; indexing prob_map at line 998 raises IndexError for a proposal
\* beyond the last row or column
SelectMHStep ==
    /\ pc = "select"
    /\ i <= MaxIter
    /\ args.no_batching
    /\ ~(i < args.precrop_iters)
    /\ args.image_sampling
    /\ args.sampling_type = "metropolis-hastings"
    /\ \E img \in Images :
        /\ CoordSum(prev_sample[img]) # 0
        /\ \E noise \in [1 .. args.N_rand -> NoiseVals \X NoiseVals],
              u \in [1 .. args.N_rand -> RandVals] :
            LET prev == prev_sample[img]
                nxt == Propose(prev, noise)
                acc == [k \in 1 .. args.N_rand |->
                          Accepts(u[k], prob_map[img][prev[k]], prob_map[img][nxt[k]])]
                sel == Where(acc, nxt, prev)
            IN  /\ next_sample' = nxt
                /\ IF \E k \in DOMAIN nxt : nxt[k] \notin Pixels
                   THEN /\ Raise("IndexError", img, "mh_step")
                        /\ UNCHANGED <<rand_image, accept, select_coords, prev_sample,
                                       has_prev, bound, accept_of>>
                   ELSE /\ rand_image' = u
                        /\ accept' = acc
                        /\ accept_of' = <<i, img>>
                        /\ select_coords' = sel
                        /\ prev_sample' = StorePrev(prev_sample, img, sel)
                        /\ has_prev' = has_prev \cup {img}
                        /\ bound' = bound \cup {"accept"}
                        /\ img_i' = img
                        /\ branch' = "mh_step"
                        /\ pc' = "selected"
                        /\ err' = err
    /\ UNCHANGED <<args, i, prob_map, coords, num, counter, touched, samples,
                   batchVars, start, global_step, ckpts, scalars, callVars>>

---------------------------------------------------------------------------
(* the rest of the loop body *)

\* update_heat_map(rgb, target_s, img_i, select_coords, ..., prob_map, ...): the
\* probability map of image img at the touched coordinates becomes the value
\* derived from the per-pixel error, e; every other entry is kept
update_heat_map(pm, img, cs, e) ==
    [pm EXCEPT ![img] =
        [px \in Pixels |-> IF \E k \in DOMAIN cs : cs[k] = px THEN e[px] ELSE pm[img][px]]]

CoordSet(cs) == {cs[k] : k \in DOMAIN cs}

\* lines 1014-1066: index the rays by the selection, render, and update the heat.
\* With batching the names img_i and select_coords are bound nowhere in train(),
\* and the heat update reads them.  The rejection loop's num and counter, not
\* read after the loop, are dropped.
RenderAndUpdate ==
    /\ pc = "selected"
    /\ IF \E k \in DOMAIN select_coords : select_coords[k] \notin Pixels
       THEN /\ err' = "IndexError"
            /\ pc' = "error"
            /\ UNCHANGED <<prob_map, touched>>
       ELSE IF args.image_sampling /\ ~args.no_batching
       THEN /\ err' = "UnboundLocalError"
            /\ pc' = "error"
            /\ UNCHANGED <<prob_map, touched>>
       ELSE /\ IF args.image_sampling
               THEN LET cs == IF args.global_sampling THEN FullGrid ELSE select_coords
                    IN  /\ \E e \in ErrMaps :
                            prob_map' = update_heat_map(prob_map, img_i, cs, e)
                        /\ touched' = cs
               ELSE UNCHANGED <<prob_map, touched>>
            /\ pc' = "updated"
            /\ err' = err
    /\ num' = 0
    /\ counter' = 0
    /\ UNCHANGED <<args, i, img_i, prev_sample, bound, coords, select_coords,
                   branch, next_sample, rand_image, accept, samples, has_prev,
                   batchVars, logVars, callVars>>

\* the checkpoint of lines 1092-1100 is due in iteration j
SaveDue(j) == j % args.i_weights = 0

\* the accept_rate scalar of lines 1135-1142 is due in iteration j
ReportDue(j) ==
    /\ j % args.i_print = 0
    /\ args.image_sampling
    /\ args.sampling_type = "metropolis-hastings"

\* accept.cpu().sum() and accept.numel()
AcceptRate(acc) == <<Cardinality({k \in DOMAIN acc : acc[k]}), Len(acc)>>

\* lines 1080-1214 and the loop head: the checkpoint, the accept_rate scalar,
\* global_step += 1, and the next iteration starts.  Without a fine network
\* render_kwargs_train['network_fine'] is None and line 1097 raises; before the
\* first propose/accept step the name accept is unbound and line 1142 raises.
\* The locals that every branch rebinds before reading them are dropped from the
\* state here.
EndIter ==
    /\ pc = "updated"
    /\ IF SaveDue(i) /\ args.N_importance = 0
       THEN /\ err' = "AttributeError"
            /\ pc' = "error"
            /\ UNCHANGED <<i, global_step, ckpts, scalars, select_coords, next_sample,
                           rand_image, touched, samples, branch>>
       ELSE /\ ckpts' = IF SaveDue(i)
                        THEN {c \in ckpts : c.i # i} \cup {[i |-> i, global_step |-> global_step]}
                        ELSE ckpts
            /\ IF ReportDue(i) /\ "accept" \notin bound
               THEN /\ err' = "UnboundLocalError"
                    /\ pc' = "error"
                    /\ UNCHANGED <<i, global_step, scalars, select_coords, next_sample,
                                   rand_image, touched, samples, branch>>
               ELSE /\ scalars' = IF ReportDue(i)
                                  THEN Append(scalars, AcceptRate(accept) \o <<i>>)
                                  ELSE scalars
                    /\ global_step' = global_step + 1
                    /\ i' = i + 1
                    /\ pc' = "select"
                    /\ select_coords' = <<>>
                    /\ next_sample' = <<>>
                    /\ rand_image' = <<>>
                    /\ touched' = <<>>
                    /\ samples' = <<>>
                    /\ branch' = "none"
                    /\ err' = err
    /\ UNCHANGED <<args, img_i, prob_map, prev_sample, bound, coords, accept,
                   num, counter, has_prev, batchVars, start, accept_of, callVars>>

NextTrain ==
    \/ WarmupCrop
    \/ SelectNone
    \/ SelectMultinomial
    \/ RejectionStart
    \/ RejectionDraw
    \/ SelectMHSeed
    \/ SelectMHStep
    \/ RenderAndUpdate
    \/ EndIter

Init == (\E r \in Runs : InitRun(r)) /\ IdleChunk /\ IdleRender /\ IdleNet

Next == NextTrain

Spec == Init /\ [][Next]_vars

\* the runs of the rejection policy alone
InitRejection ==
    (\E r \in {x \in Runs : x.cfg.image_sampling /\ x.cfg.sampling_type = "rejection"} :
        InitRun(r)) /\ IdleChunk /\ IdleRender /\ IdleNet

NextRejection ==
    \/ WarmupCrop
    \/ RejectionStart
    \/ RejectionDraw
    \/ RenderAndUpdate
    \/ EndIter

SpecRejection == InitRejection /\ [][NextRejection]_vars

\* the runs of the Metropolis-Hastings policy alone
InitMH ==
    (\E r \in {x \in Runs : x.cfg.image_sampling
                              /\ x.cfg.sampling_type = "metropolis-hastings"} :
        InitRun(r)) /\ IdleChunk /\ IdleRender /\ IdleNet

NextMH ==
    \/ WarmupCrop
    \/ SelectMHSeed
    \/ SelectMHStep
    \/ RenderAndUpdate
    \/ EndIter

SpecMH == InitMH /\ [][NextMH]_vars

\* the runs of the Metropolis-Hastings policy that write the accept_rate scalar
\* in every iteration, or in every second one
ReportRuns ==
    {[r EXCEPT !.cfg.i_print = p] :
        r \in {x \in Runs : x.cfg.image_sampling
                               /\ x.cfg.sampling_type = "metropolis-hastings"},
        p \in 1 .. 2}

InitReport == (\E r \in ReportRuns : InitRun(r)) /\ IdleChunk /\ IdleRender /\ IdleNet

NextReport ==
    \/ WarmupCrop
    \/ SelectMHSeed
    \/ SelectMHStep
    \/ RenderAndUpdate
    \/ EndIter

SpecReport == InitReport /\ [][NextReport]_vars

---------------------------------------------------------------------------
(* A run that is stopped and started again from its last checkpoint *)

\* line 219 and line 224: sorted(os.listdir(...)) and ckpts[-1]; the files are
\* named by the zero-padded iteration that wrote them
LatestCkpt == CHOOSE c \in ckpts : \A d \in ckpts : d.i <= c.i

\* lines 216-234, 665 and 770-869: the process is started again, with the same
\* arguments, when some checkpoint exists: start = ckpt['global_step'],
\* global_step = start, start = start + 1, and the loop begins at start.  The
\* sampling maps, prev_sample and every local of train() are built anew; the
\* checkpoint files and the written scalars stay on disk.
Restart ==
    /\ pc \in {"select", "error"}
    /\ args.no_batching
    /\ ckpts # {}
    /\ global_step' = LatestCkpt.global_step
    /\ start' = LatestCkpt.global_step + 1
    /\ i' = LatestCkpt.global_step + 1
    /\ pc' = "select"
    /\ img_i' = 0
    /\ \E m \in InitMaps :
          /\ ~args.image_sampling => m = [px \in Pixels |-> ONE]
          /\ prob_map' = [im \in DOMAIN prob_map |-> m]
    /\ prev_sample' = [im \in DOMAIN prev_sample |-> ZeroSample(args.N_rand)]
    /\ bound' = {}
    /\ coords' = <<>>
    /\ select_coords' = <<>>
    /\ branch' = "none"
    /\ num' = 0
    /\ counter' = 0
    /\ next_sample' = <<>>
    /\ rand_image' = <<>>
    /\ accept' = <<>>
    /\ err' = "none"
    /\ touched' = <<>>
    /\ samples' = <<>>
    /\ has_prev' = {}
    /\ accept_of' = <<>>
    /\ UNCHANGED <<args, batchVars, ckpts, scalars, callVars>>

\* the runs that write a checkpoint in every iteration, or in every second one,
\* with and without a fine network
ResumeRuns ==
    {[r EXCEPT !.cfg.i_weights = w, !.cfg.N_importance = f] :
        r \in {x \in Runs : x.cfg.sampling_type \in {"none", "metropolis-hastings"}},
        w \in 1 .. 2, f \in 0 .. 1}

InitResume == (\E r \in ResumeRuns : InitRun(r)) /\ IdleChunk /\ IdleRender /\ IdleNet

NextResume ==
    \/ WarmupCrop
    \/ SelectNone
    \/ SelectMHSeed
    \/ SelectMHStep
    \/ RenderAndUpdate
    \/ EndIter
    \/ Restart

SpecResume == InitResume /\ [][NextResume]_vars

---------------------------------------------------------------------------
(* batchify_rays, lines 55-67, over render_rays, lines 309-419 *)

\* a ray is told apart by a number; a jitter draw (t_rand of line 372) by 0 or 1
RayVals == 0 .. MaxRayVal
TRandVals == {0, 1}

\* sequences of length 1 .. n over S
SeqsUpTo(S, n) == UNION {[1 .. m -> S] : m \in 1 .. n}

\* the keys of the dictionary render_rays returns (lines 406-413)
RetKeys(kw) ==
    {"rgb_map", "disp_map", "acc_map"}
        \cup (IF kw.retraw THEN {"raw"} ELSE {})
        \cup (IF kw.N_importance > 0 THEN {"rgb0", "disp0", "acc0", "z_std"} ELSE {})

\* what render_rays computes for one ray: every output of a ray is a function of
\* that ray and of its own jitter draws alone (each line of render_rays works
\* along the last axes; the field is queried point by point)
RenderRay(ray, t, k) ==
    CASE k = "rgb_map" -> <<ray, t, "fine">>
      [] k = "disp_map" -> 10 * ray + t
      [] k = "acc_map" -> 3 * ray + 2 * t + 1
      [] k = "raw" -> <<ray, t, "raw">>
      [] k = "rgb0" -> <<ray, t, "coarse">>
      [] k = "disp0" -> 10 * ray + t + 100
      [] k = "acc0" -> 3 * ray + 2 * t
      [] k = "z_std" -> ray + t

\* render_rays(ray_batch, **kwargs) with the jitter draws t, one per ray
render_rays(ray_batch, t, kw) ==
    [k \in RetKeys(kw) |->
        [j \in 1 .. Len(ray_batch) |-> RenderRay(ray_batch[j], t[j], k)]]

\* a slice that takes one element too many: s[a:b+1]
SliceOneMore(s, a, b) ==
    LET e == IF b + 1 < Len(s) THEN b + 1 ELSE Len(s)
    IN  IF a >= e THEN <<>> ELSE [j \in 1 .. e - a |-> s[a + j]]

\* s[a:b] of Python, a and b counted from 0, b cut at len(s)
Slice(s, a, b) ==
    LET e == IF b < Len(s) THEN b ELSE Len(s)
    IN  IF a >= e THEN <<>> ELSE [j \in 1 .. e - a |-> s[a + j]]

\* torch.cat(list, 0)
RECURSIVE Cat(_)
Cat(l) == IF l = <<>> THEN <<>> ELSE Head(l) \o Cat(Tail(l))

\* torch.rand(z_vals.shape) when perturb > 0; no draw otherwise
JitterDraws(n, kw) ==
    IF kw.perturb THEN [1 .. n -> TRandVals] ELSE {[j \in 1 .. n |-> 0]}

InitChunk ==
    /\ rays_flat \in SeqsUpTo(RayVals, MaxRays)
    /\ chunk \in 1 .. MaxChunk
    /\ kwargs \in [perturb : BOOLEAN, N_importance : {0, 1}, retraw : BOOLEAN]
    /\ bi = 0
    /\ all_ret = <<>>
    /\ t_rand_all = <<>>
    /\ bpc = "loop"

\* one pass of the for loop, lines 59-64
BatchifyChunk ==
    /\ bpc = "loop"
    /\ bi < Len(rays_flat)
    /\ \E t \in JitterDraws(Len(Slice(rays_flat, bi, bi + chunk)), kwargs) :
        LET ret == render_rays(Slice(rays_flat, bi, bi + chunk), t, kwargs)
        IN  /\ all_ret' = [k \in DOMAIN ret |->
                              IF k \in DOMAIN all_ret THEN Append(all_ret[k], ret[k])
                              ELSE <<ret[k]>>]
            /\ t_rand_all' = t_rand_all \o t
    /\ bi' = bi + chunk
    /\ UNCHANGED <<rays_flat, chunk, kwargs, bpc, trainVars, renderVars, netVars>>

\* line 66, once the range is exhausted
BatchifyCat ==
    /\ bpc = "loop"
    /\ ~(bi < Len(rays_flat))
    /\ all_ret' = [k \in DOMAIN all_ret |-> Cat(all_ret[k])]
    /\ bpc' = "done"
    /\ UNCHANGED <<rays_flat, chunk, kwargs, bi, t_rand_all, trainVars, renderVars, netVars>>

NextChunk == BatchifyChunk \/ BatchifyCat

InitBatchify == IdleTrain /\ InitChunk /\ IdleRender /\ IdleNet

SpecChunk == InitBatchify /\ [][NextChunk]_vars

---------------------------------------------------------------------------
(* train() with random ray batching over all images (without --no_batching) *)

BatchConfigs ==
    {c \in [sampling_type : {"multinomial"}, image_sampling : BOOLEAN,
            precrop_iters : {0}, precrop_frac : {<<1, 2>>}, N_rand : 1 .. MaxBatchNRand,
            no_batching : {FALSE}, global_sampling : BOOLEAN,
            i_print : {DefaultPrint}, i_weights : {DefaultWeights}, N_importance : {0}] :
        c.global_sampling => c.image_sampling}

BatchRuns ==
    [cfg : BatchConfigs, n : 1 .. NumImages, start : 0 .. MaxIter - 1,
     map : {[px \in Pixels |-> ONE]}]

\* lines 809-844
InitBatching == (\E r \in BatchRuns : InitRun(r)) /\ IdleChunk /\ IdleRender /\ IdleNet

\* a test that lets the cursor rest on the end of the rays
EpochOverLate(ib, total) == ib > total

\* lines 891 and 915: if i_batch >= rays_rgb.shape[0]
EpochOver(ib, total) == ib >= total

\* lines 877-919: the next N_rand rays of the shuffled sequence; img_i and
\* select_coords are not assigned
BatchSelect ==
    /\ pc = "select"
    /\ i <= MaxBatchIter
    /\ ~args.no_batching
    /\ batch' = Slice(rays_rgb, i_batch, i_batch + args.N_rand)
    /\ IF EpochOver(i_batch + args.N_rand, Len(rays_rgb))
       THEN /\ rays_rgb' \in Shuffles(rays_rgb)
            /\ i_batch' = 0
            /\ served' = <<>>
       ELSE /\ rays_rgb' = rays_rgb
            /\ i_batch' = i_batch + args.N_rand
            /\ served' = served \o batch'
    /\ branch' = "batch"
    /\ pc' = "selected"
    /\ UNCHANGED <<args, i, img_i, prob_map, prev_sample, bound, coords,
                   select_coords, num, counter, next_sample, rand_image, accept,
                   err, touched, samples, has_prev, logVars, callVars>>

NextBatching ==
    \/ BatchSelect
    \/ RenderAndUpdate
    \/ EndIter

SpecBatching == InitBatching /\ [][NextBatching]_vars

---------------------------------------------------------------------------
(* Arithmetic of the renderer *)
(*                                                                         *)
(* Depths are integers in units of 1 / DepthDen.  Opacities, weights and   *)
(* colours are non-negative fixed-point numbers in units of 1e-10 (the     *)
(* epsilon of the transmittance product), written <<a2, a1, a0>> for       *)
(* a2 * 10^8 + a1 * 10^4 + a0; products are rounded down to the unit.      *)
(* exp is computed to four decimal places.                                 *)

FBase == 10 ^ 4

\* carries propagated: every limb but the first below FBase
FNorm(c2, c1, c0) ==
    LET d1 == c1 + (c0 \div FBase)
    IN  <<c2 + (d1 \div FBase), d1 % FBase, c0 % FBase>>

FZero == <<0, 0, 0>>
FOne == <<100, 0, 0>>

\* the 1e-10 of lines 296 and 300
FEps == <<0, 0, 1>>

FAdd(a, b) == FNorm(a[1] + b[1], a[2] + b[2], a[3] + b[3])

FLeq(a, b) ==
    \/ a[1] < b[1]
    \/ a[1] = b[1] /\ a[2] < b[2]
    \/ a[1] = b[1] /\ a[2] = b[2] /\ a[3] <= b[3]

FLess(a, b) == FLeq(a, b) /\ a # b

\* a - b for b <= a
FSub(a, b) ==
    LET l0 == a[3] - b[3]
        w0 == IF l0 < 0 THEN 1 ELSE 0
        l1 == a[2] - b[2] - w0
        w1 == IF l1 < 0 THEN 1 ELSE 0
    IN  <<a[1] - b[1] - w1, l1 + w1 * FBase, l0 + w0 * FBase>>

\* a * b, rounded down to the unit
FMul(a, b) ==
    LET c0 == a[3] * b[3]
        c1 == a[3] * b[2] + a[2] * b[3]
        c2 == a[3] * b[1] + a[2] * b[2] + a[1] * b[3]
        c3 == a[2] * b[1] + a[1] * b[2]
        c4 == a[1] * b[1]
        d2 == c2 + ((c1 + (c0 \div FBase)) \div FBase)
        d3 == c3 + (d2 \div FBase)
        m2 == c4 + (d3 \div FBase)
        m1 == d3 % FBase
        m0 == d2 % FBase
        t1 == (m2 % 100) * FBase + m1
        t0 == (t1 % 100) * FBase + m0
    IN  <<m2 \div 100, t1 \div 100, t0 \div 100>>

\* a * n for a small natural number n
FScale(a, n) == FNorm(a[1] * n, a[2] * n, a[3] * n)

\* k / 10^4 as a fixed-point number
FromE4(k) == <<k \div 100, (k % 100) * 100, 0>>

RECURSIVE FSum(_)
FSum(s) == IF s = <<>> THEN FZero ELSE FAdd(Head(s), FSum(Tail(s)))

\* exp(-1) to four places
ExpMinusOne == 3679

\* exp(-f / 10^4) in units of 10^-4, 0 <= f < 10^4: the Taylor series to the
\* tenth term, each term from the one before
RECURSIVE ExpSeries(_, _, _)
ExpSeries(f, k, term) ==
    IF k > 10 \/ term = 0 THEN 0
    ELSE LET nxt == (term * f) \div (k * FBase)
         IN  (IF k % 2 = 1 THEN 0 - nxt ELSE nxt) + ExpSeries(f, k + 1, nxt)

RECURSIVE ExpPow(_, _)
ExpPow(v, n) == IF n = 0 THEN v ELSE ExpPow((v * ExpMinusOne + FBase \div 2) \div FBase, n - 1)

\* exp(-x / den) in units of 10^-4, for x >= 0; below 10^-4 / 2 from 10 on
ExpNeg(x, den) ==
    LET n == x \div den
        f == ((x % den) * FBase) \div den
    IN  IF n >= 10 THEN 0 ELSE ExpPow(FBase + ExpSeries(f, 1, FBase), n)

---------------------------------------------------------------------------
(* render_rays, lines 309-419, for one ray *)
(*                                                                         *)
(* The model follows one ray of the batch (every line of render_rays works *)
(* along the last axes).  raw_noise_std is 0 and white_bkgd is False, as   *)
(* in the default configuration; N_importance > 0 comes with at least      *)
(* three coarse samples, so that sample_pdf has a bin to sample from.      *)

\* halves and thirds of the unit depth are whole
DepthDen == 2 * 2 * 3
MaxSamples == 4
MaxImportance == 2

\* the distance appended for the last sample (line 279), 1e10, kept at the
\* largest distance the model holds
DistCap == 10 ^ 9

\* the largest exponent the model holds
ExpCap == 2 * 10 ^ 9

\* the radiance fields: what the network answers at a point of the ray,
\* [rgb (one channel, before the sigmoid), sigma (before the relu)]
Fields == {"empty", "fog", "wall", "front"}

Network(fn, call, z) ==
    CASE fn = "empty" -> [rgb |-> 0, sigma |-> 0 - 1]
      [] fn = "fog" -> [rgb |-> 0, sigma |-> 1]
      [] fn = "wall" -> IF 2 * z < call.near + call.far
                        THEN [rgb |-> 0 - 100, sigma |-> 0]
                        ELSE [rgb |-> 100, sigma |-> 1000]
      [] fn = "front" -> [rgb |-> 100, sigma |-> 1000]

\* network_query_fn(pts, viewdirs, fn): the field at every point of the ray
network_query_fn(z_vals, fn, call) ==
    [k \in DOMAIN z_vals |-> Network(fn, call, z_vals[k])]

\* F.relu
Relu(x) == IF x > 0 THEN x ELSE 0

\* torch.sigmoid in units of 10^-4, for the colours the fields return
Sigmoid(x) ==
    CASE x = 0 -> FBase \div 2
      [] x >= 20 -> FBase
      [] x <= 0 - 20 -> 0

\* a * b, kept at ExpCap when it is beyond
SatMul(a, b) ==
    IF a = 0 \/ b = 0 THEN 0
    ELSE IF a > ExpCap \div b THEN ExpCap ELSE a * b

\* raw2alpha, line 276: 1 - exp(-relu(raw) * dists)
raw2alpha(raw, dists) ==
    FSub(FOne, FromE4(ExpNeg(SatMul(Relu(raw), dists), DepthDen)))

\* distances without the one appended for the last sample
DistsNoSentinel(z_vals, d_norm) ==
    [k \in DOMAIN z_vals |->
        SatMul(IF k < Len(z_vals) THEN z_vals[k + 1] - z_vals[k] ELSE 0, d_norm)]

\* dists, lines 278-281
Dists(z_vals, d_norm) ==
    [k \in DOMAIN z_vals |->
        SatMul(IF k < Len(z_vals) THEN z_vals[k + 1] - z_vals[k] ELSE DistCap, d_norm)]

\* an exclusive cumulative product that leaves the opacities out
RECURSIVE CumprodNoAlpha(_, _)
CumprodNoAlpha(alpha, k) ==
    IF k = 1 THEN FOne
    ELSE FMul(CumprodNoAlpha(alpha, k - 1), FAdd(FOne, FEps))

\* torch.cumprod(cat([1, 1 - alpha + 1e-10]))[:-1] at position k, line 296
RECURSIVE Cumprod(_, _)
Cumprod(alpha, k) ==
    IF k = 1 THEN FOne
    ELSE FMul(Cumprod(alpha, k - 1), FAdd(FSub(FOne, alpha[k - 1]), FEps))

\* 1 / max(1e-10, depth_map / sum(weights)), line 300, as the quotient num / den;
\* depth is in units of 1e-10 / DepthDen.  0 / 0 is NaN and max(1e-10, NaN) is NaN
Disparity(depth, acc) ==
    IF acc = FZero
    THEN IF depth = FZero THEN [cls |-> "nan", num |-> FZero, den |-> FZero]
         ELSE [cls |-> "num", num |-> FZero, den |-> FOne]
    ELSE IF FLeq(depth, <<0, 0, FScale(acc, DepthDen)[1] \div 100>>)
         THEN [cls |-> "num", num |-> FOne, den |-> FEps]
         ELSE [cls |-> "num", num |-> FScale(acc, DepthDen), den |-> depth]

\* raw2outputs, lines 263-306
raw2outputs(raw, z_vals, d_norm) ==
    LET dists == Dists(z_vals, d_norm)
        rgb == [k \in DOMAIN raw |-> FromE4(Sigmoid(raw[k].rgb))]
        alpha == [k \in DOMAIN raw |-> raw2alpha(raw[k].sigma, dists[k])]
        weights == [k \in DOMAIN raw |-> FMul(alpha[k], Cumprod(alpha, k))]
        depth_map == FSum([k \in DOMAIN raw |-> FScale(weights[k], z_vals[k])])
    IN  [rgb_map |-> FSum([k \in DOMAIN raw |-> FMul(weights[k], rgb[k])]),
         disp_map |-> Disparity(depth_map, FSum(weights)),
         acc_map |-> FSum(weights),
         weights |-> weights,
         depth_map |-> depth_map]

\* t_vals = linspace(0, 1, N_samples) mapped to depth, lines 358-364; t_vals[k] is
\* (k - 1) / (N_samples - 1), and [0] for one sample
NominalDepths(call) ==
    LET m == call.N_samples - 1
    IN  [k \in 1 .. call.N_samples |->
            IF m = 0 THEN call.near
            ELSE IF ~call.lindisp
                 THEN (call.near * (m - (k - 1)) + call.far * (k - 1)) \div m
                 ELSE (call.near * call.far * m)
                          \div (call.far * (m - (k - 1)) + call.near * (k - 1))]

\* .5 * (z_vals[...,1:] + z_vals[...,:-1]), lines 368 and 393
Mids(z) == [k \in 1 .. Len(z) - 1 |-> (z[k + 1] + z[k]) \div 2]

\* upper ends taken one interval to the right
UpperShifted(z) ==
    [k \in DOMAIN z |-> IF k + 1 < Len(z) THEN (z[k + 2] + z[k + 1]) \div 2 ELSE z[Len(z)]]

\* lines 369-370
Upper(z) == Mids(z) \o <<z[Len(z)]>>
Lower(z) == <<z[1]>> \o Mids(z)

\* lower + (upper - lower) * t_rand, line 380; t_rand as numerators over 2^24
Jitter(lower, upper, t) ==
    [k \in DOMAIN lower |-> lower[k] + Mul(upper[k] - lower[k], t[k])[1]]

\* torch.rand(z_vals.shape), line 372: the draws that are tried
TRandNums == {0, RandDen \div 2, RandDen - 1}

TRandDraws(n) ==
    {[k \in 1 .. n |-> c] : c \in TRandNums}
        \cup {[k \in 1 .. n |-> IF k % 2 = 1 THEN RandDen - 1 ELSE 0],
              [k \in 1 .. n |-> IF k % 2 = 1 THEN 0 ELSE RandDen - 1]}

\* s with x put before the first larger element
RECURSIVE Insert(_, _)
Insert(x, s) ==
    IF s = <<>> THEN <<x>>
    ELSE IF x <= Head(s) THEN <<x>> \o s ELSE <<Head(s)>> \o Insert(x, Tail(s))

\* a sort that keeps one copy of equal values
RECURSIVE SortUnique(_)
SortUnique(s) ==
    IF s = <<>> THEN <<>>
    ELSE LET r == SortUnique(Tail(s))
         IN  IF \E k \in DOMAIN r : r[k] = Head(s) THEN r ELSE Insert(Head(s), r)

\* torch.sort(..., -1), line 397
RECURSIVE Sort(_)
Sort(s) == IF s = <<>> THEN <<>> ELSE Insert(Head(s), Sort(Tail(s)))

\* sample_pdf(bins, weights, N_importance, det): N_importance depths between the
\* first and the last bin edge, in increasing order when det
sample_pdf(bins, weights, n, det) ==
    {z \in [1 .. n -> {bins[1], (bins[1] + bins[Len(bins)]) \div 2, bins[Len(bins)]}] :
        det => \A k \in 1 .. n - 1 : z[k] <= z[k + 1]}

\* torch.std(z_samples, unbiased=False), line 413, kept as n^2 times its square
StdSq(z) ==
    Len(z) * SumSeq([k \in DOMAIN z |-> z[k] * z[k]]) - SumSeq(z) * SumSeq(z)

\* the calls that are explored
NearFar == {<<0, DepthDen>>, <<2 * DepthDen, 6 * DepthDen>>, <<2 * DepthDen, 2 * DepthDen>>}

Calls ==
    {c \in [near : {nf[1] : nf \in NearFar}, far : {nf[2] : nf \in NearFar},
            d_norm : {1, 2}, network_fn : Fields, network_fine : {"None", "fog"},
            N_samples : 1 .. MaxSamples, retraw : BOOLEAN, lindisp : BOOLEAN,
            perturb : BOOLEAN, N_importance : {0, MaxImportance}] :
        /\ <<c.near, c.far>> \in NearFar
        /\ c.lindisp => c.near > 0
        /\ c.N_importance > 0 => c.N_samples >= 3
        /\ c.N_importance = 0 => c.network_fine = "None"}

InitRender ==
    /\ IdleTrain
    /\ IdleChunk
    /\ IdleNet
    /\ rcall \in Calls
    /\ loc = NoLocals
    /\ rpc = "start"
    /\ stdout = {}
    /\ DEBUG \in BOOLEAN

\* lines 352-364
Stratify ==
    /\ rpc = "start"
    /\ loc' = [loc EXCEPT !.nominal = NominalDepths(rcall),
                          !.z_vals = NominalDepths(rcall)]
    /\ rpc' = "stratified"
    /\ UNCHANGED <<rcall, stdout, DEBUG, trainVars, chunkVars, netVars>>

\* lines 366-380
Perturb ==
    /\ rpc = "stratified"
    /\ IF rcall.perturb
       THEN \E t \in TRandDraws(rcall.N_samples) :
                loc' = [loc EXCEPT !.lower = Lower(loc.z_vals),
                                   !.upper = Upper(loc.z_vals),
                                   !.t_rand = t,
                                   !.z_vals = Jitter(Lower(loc.z_vals), Upper(loc.z_vals), t)]
       ELSE loc' = loc
    /\ rpc' = "perturbed"
    /\ UNCHANGED <<rcall, stdout, DEBUG, trainVars, chunkVars, netVars>>

\* lines 382-387
CoarsePass ==
    /\ rpc = "perturbed"
    /\ LET raw == network_query_fn(loc.z_vals, rcall.network_fn, rcall)
       IN  loc' = [loc EXCEPT !.raw = raw,
                              !.out = raw2outputs(raw, loc.z_vals, rcall.d_norm)]
    /\ rpc' = "coarse"
    /\ UNCHANGED <<rcall, stdout, DEBUG, trainVars, chunkVars, netVars>>

\* weights[...,1:-1]
Interior(w) == [k \in 1 .. Len(w) - 2 |-> w[k + 1]]

\* lines 389-404
FinePass ==
    /\ rpc = "coarse"
    /\ IF rcall.N_importance > 0
       THEN \E z_samples \in sample_pdf(Mids(loc.z_vals), Interior(loc.out.weights),
                                        rcall.N_importance, ~rcall.perturb) :
                LET z_vals == Sort(loc.z_vals \o z_samples)
                    run_fn == IF rcall.network_fine = "None" THEN rcall.network_fn
                              ELSE rcall.network_fine
                    raw == network_query_fn(z_vals, run_fn, rcall)
                IN  loc' = [loc EXCEPT !.out0 = loc.out,
                                       !.coarse = loc.z_vals,
                                       !.z_samples = z_samples,
                                       !.z_vals = z_vals,
                                       !.raw = raw,
                                       !.out = raw2outputs(raw, z_vals, rcall.d_norm)]
       ELSE loc' = loc
    /\ rpc' = "fine"
    /\ UNCHANGED <<rcall, stdout, DEBUG, trainVars, chunkVars, netVars>>

\* the coarse entries read after the fine pass has overwritten the outputs
RetValueOverwritten(l, k) ==
    CASE k \in {"rgb_map", "rgb0"} -> l.out.rgb_map
      [] k \in {"disp_map", "disp0"} -> l.out.disp_map
      [] k \in {"acc_map", "acc0"} -> l.out.acc_map
      [] k = "raw" -> l.raw
      [] k = "z_std" -> StdSq(l.z_samples)

\* the value of a key of ret, lines 406-413
RetValue(l, k) ==
    CASE k = "rgb_map" -> l.out.rgb_map
      [] k = "disp_map" -> l.out.disp_map
      [] k = "acc_map" -> l.out.acc_map
      [] k = "raw" -> l.raw
      [] k = "rgb0" -> l.out0.rgb_map
      [] k = "disp0" -> l.out0.disp_map
      [] k = "acc0" -> l.out0.acc_map
      [] k = "z_std" -> StdSq(l.z_samples)

\* lines 406-413
BuildRet ==
    /\ rpc = "fine"
    /\ loc' = [loc EXCEPT !.ret = [k \in RetKeys(rcall) |-> RetValue(loc, k)]]
    /\ rpc' = "built"
    /\ UNCHANGED <<rcall, stdout, DEBUG, trainVars, chunkVars, netVars>>

\* torch.isnan(v).any() or torch.isinf(v).any(): of the values of the model only a
\* disparity can be NaN
NanOrInf(ret, k) ==
    k \in {"disp_map", "disp0"} /\ ret[k].cls \in {"nan", "inf"}

\* a report that does not look at the flag
ReportedAlways(ret, debug) == {k \in DOMAIN ret : NanOrInf(ret, k)}

\* the keys printed by the loop of lines 415-417
Reported(ret, debug) == {k \in DOMAIN ret : NanOrInf(ret, k) /\ debug}

\* lines 415-419
Report ==
    /\ rpc = "built"
    /\ stdout' = Reported(loc.ret, DEBUG)
    /\ rpc' = "done"
    /\ UNCHANGED <<rcall, loc, DEBUG, trainVars, chunkVars, netVars>>

NextRender == Stratify \/ Perturb \/ CoarsePass \/ FinePass \/ BuildRet \/ Report

SpecRender == InitRender /\ [][NextRender]_vars

---------------------------------------------------------------------------
(* run_network, lines 38-52, over batchify, lines 28-35 *)

MaxNetRays == 2
MaxNetSamples == 3
MaxNetChunk == 4
MaxPoint == 1

\* netchunk = None
NoChunk == 0 - 1

\* the embedders and the network work on every row of their input alone
embed_fn(x) == <<"embed", x>>
embeddirs_fn(d) == <<"embeddirs", d>>
fn(e) == <<"fn", e>>

\* torch.reshape(inputs, [-1, inputs.shape[-1]]): the points of a
\* [rays, samples] array in row-major order
FlattenPoints(a) == Cat(a)

\* torch.reshape(outputs_flat, list(inputs.shape[:-1]) + [...]), line 51
Unflatten(flat, a) ==
    [r \in DOMAIN a |-> [k \in DOMAIN a[r] |-> flat[(r - 1) * Len(a[1]) + k]]]

\* the list concatenated last part first
RECURSIVE CatReversed(_)
CatReversed(l) == IF l = <<>> THEN <<>> ELSE CatReversed(Tail(l)) \o Head(l)

\* torch.cat(list, 0) of line 34
NetCat(l) == Cat(l)

\* the point arrays that are explored: rays x samples, every point a number
PointArrays ==
    UNION {[1 .. r -> [1 .. n -> 0 .. MaxPoint]] :
              r \in 1 .. MaxNetRays, n \in 1 .. MaxNetSamples}

InitNet ==
    /\ IdleTrain
    /\ IdleChunk
    /\ IdleRender
    /\ \E a \in PointArrays, c \in (1 .. MaxNetChunk) \cup {NoChunk} :
       \E v \in {<<>>} \cup [DOMAIN a -> {0, 1}] :
          net = [inputs |-> a, viewdirs |-> v, netchunk |-> c, embedded |-> <<>>,
                 i |-> 0, parts |-> <<>>, outputs |-> <<>>, pc |-> "start"]

\* lines 41-48
Embed ==
    /\ net.pc = "start"
    /\ LET inputs_flat == FlattenPoints(net.inputs)
           input_dirs_flat ==
               FlattenPoints([r \in DOMAIN net.inputs |->
                                 [k \in DOMAIN net.inputs[r] |-> net.viewdirs[r]]])
       IN  net' = [net EXCEPT
                      !.embedded =
                          [k \in DOMAIN inputs_flat |->
                              IF net.viewdirs # <<>>
                              THEN <<embed_fn(inputs_flat[k]), embeddirs_fn(input_dirs_flat[k])>>
                              ELSE <<embed_fn(inputs_flat[k])>>],
                      !.pc = "embedded"]
    /\ UNCHANGED <<trainVars, chunkVars, renderVars>>

\* batchify with chunk None returns fn itself, lines 31-32: one application
ApplyWhole ==
    /\ net.pc = "embedded"
    /\ net.netchunk = NoChunk
    /\ net' = [net EXCEPT !.parts = <<[k \in DOMAIN net.embedded |-> fn(net.embedded[k])]>>,
                          !.pc = "applied"]
    /\ UNCHANGED <<trainVars, chunkVars, renderVars>>

\* one element of the list of line 34: fn(inputs[i:i+chunk])
ApplySlice ==
    /\ net.pc = "embedded"
    /\ net.netchunk # NoChunk
    /\ net.i < Len(net.embedded)
    /\ LET part == Slice(net.embedded, net.i, net.i + net.netchunk)
       IN  net' = [net EXCEPT !.parts = Append(net.parts, [k \in DOMAIN part |-> fn(part[k])]),
                              !.i = net.i + net.netchunk]
    /\ UNCHANGED <<trainVars, chunkVars, renderVars>>

\* the range of line 34 is exhausted
SlicesDone ==
    /\ net.pc = "embedded"
    /\ net.netchunk # NoChunk
    /\ ~(net.i < Len(net.embedded))
    /\ net' = [net EXCEPT !.pc = "applied"]
    /\ UNCHANGED <<trainVars, chunkVars, renderVars>>

\* torch.cat of line 34 (of the one part without chunking) and lines 51-52
Reshape ==
    /\ net.pc = "applied"
    /\ net' = [net EXCEPT !.outputs = Unflatten(NetCat(net.parts), net.inputs),
                          !.pc = "done"]
    /\ UNCHANGED <<trainVars, chunkVars, renderVars>>

NextNet == Embed \/ ApplyWhole \/ ApplySlice \/ SlicesDone \/ Reshape

SpecNet == InitNet /\ [][NextNet]_vars

---------------------------------------------------------------------------
(* Claims about batchify_rays *)

\* C1: chunking invariance.  When batchify_rays returns, every output key holds
\* exactly R rows and row j is the rendering of input ray j with the jitter drawn
\* for it: the result equals what one render_rays call on the whole batch gives,
\* in the same order, whatever the chunk size.
C1_ChunkingInvariance ==
    bpc = "done" =>
        /\ all_ret = render_rays(rays_flat, t_rand_all, kwargs)
        /\ \A k \in DOMAIN all_ret : Len(all_ret[k]) = Len(rays_flat)

\* a batch of three rays rendered in chunks of two (which does not divide three),
\* with jitter, has returned
C1_Witness ==
    /\ bpc = "done"
    /\ Len(rays_flat) = 3
    /\ chunk = 2
    /\ kwargs.perturb
    /\ rays_flat[1] # rays_flat[3]
    /\ t_rand_all[1] # t_rand_all[3]

---------------------------------------------------------------------------
(* The pixel-selection policies of train() *)

\* a Metropolis-Hastings proposal step has just run on image img_i'
MHStepTaken == pc = "select" /\ pc' = "selected" /\ branch' = "mh_step"

Distinct(cs) == \A j, k \in DOMAIN cs : j # k => cs[j] # cs[k]

\* C2: every policy returns exactly N coordinate pairs on every training step:
\* no step ends in an error, and a finished selection holds N_rand pairs.
C2_EveryPolicyReturnsN ==
    /\ err = "none"
    /\ pc = "selected" => Len(select_coords) = args.N_rand

\* C3 (as stated): the rejection loop never performs more than 1000 threshold
\* draws for one training step.
C3_AtMostBudgetDraws == counter <= RetryBudget

\* C3: the rejection loop performs at most 1001 threshold draws for one training
\* step: the budget is tested after the draw that made the counter exceed 1000,
\* and the loop is not entered again after that draw.
C3_AtMostBudgetPlusOneDraws ==
    /\ counter <= RetryBudget + 1
    /\ pc = "rejection" => counter <= RetryBudget
    /\ (branch = "rejection" /\ pc = "selected" /\ counter <= RetryBudget)
          => Len(select_coords) = args.N_rand

C3_Witness ==
    /\ branch = "rejection"
    /\ pc = "selected"
    /\ counter = RetryBudget + 1
    /\ Len(select_coords) = args.N_rand

\* C4: once the retry budget of the rejection loop is used up, the step still
\* ends with N_rand distinct pixels, drawn uniformly from the full H x W grid,
\* and without an error.
C4_FallbackOverFullGrid ==
    (branch = "rejection" /\ BudgetExhausted(counter)) =>
        /\ err = "none"
        /\ coords = FullGrid
        /\ Len(select_coords) = args.N_rand
        /\ Distinct(select_coords)

\* C5: a Metropolis-Hastings invocation seeds (a uniform draw without
\* replacement over the full grid, stored as the image's pixel set) exactly when
\* the image has no stored pixel set; on every later invocation for the image
\* it proposes from the stored set.
C5_SeedsOnlyWithoutStoredSet ==
    [][(pc = "select" /\ pc' = "selected" /\ branch' \in {"mh_seed", "mh_step"}) =>
          /\ (branch' = "mh_step") <=> (img_i' \in has_prev)
          /\ branch' = "mh_seed" =>
                /\ Distinct(select_coords')
                /\ prev_sample'[img_i'] = select_coords']_vars

\* C6: a Metropolis-Hastings step updates the pixel set index by index: an
\* accepted index takes its proposal, a rejected index keeps its pixel, the
\* result is both the step's selection and the image's stored set, and the
\* stored sets of the other images are untouched.
C6_PerPixelUpdate ==
    [][MHStepTaken =>
          /\ Len(select_coords') = args.N_rand
          /\ \A k \in 1 .. args.N_rand :
                select_coords'[k] = IF accept'[k] THEN next_sample'[k]
                                    ELSE prev_sample[img_i'][k]
          /\ prev_sample'[img_i'] = select_coords'
          /\ \A im \in Images \ {img_i'} : prev_sample'[im] = prev_sample[im]]_vars

C6_Witness ==
    /\ pc = "selected"
    /\ branch = "mh_step"
    /\ args.N_rand = 2
    /\ accept = <<TRUE, FALSE>>
    /\ select_coords[1] = next_sample[1]
    /\ select_coords[2] # next_sample[2]

\* C7: a proposal that lands on a pixel of probability zero, made from a pixel
\* of positive probability, is rejected whatever the draw: the pixel set does
\* not move into the zero-probability pixel.
C7_ZeroRegionRejected ==
    [][MHStepTaken =>
          \A k \in 1 .. args.N_rand :
              (/\ prob_map[img_i'][next_sample'[k]] = 0
               /\ prob_map[img_i'][prev_sample[img_i'][k]] > 0)
                 => (~accept'[k] /\ select_coords'[k] = prev_sample[img_i'][k])]_vars

\* C8 (as stated): a proposal whose new and old probabilities are equal, and
\* positive, is accepted for every uniform draw.
C8_EqualAlwaysAccepted ==
    [][MHStepTaken =>
          \A k \in 1 .. args.N_rand :
              LET p == prob_map[img_i'][prev_sample[img_i'][k]]
                  q == prob_map[img_i'][next_sample'[k]]
              IN  (p = q /\ p > 0) => accept'[k]]_vars

\* C8: a proposal from a pixel of probability p to one of probability q is
\* accepted exactly when the draw u satisfies u <= q / (p + 1e-7).  A proposal
\* to a pixel more probable by 1e-7 or more is accepted for every draw; with
\* p = q = 1 every draw is accepted but the largest one, 1 - 2^-24, and with
\* p = q = 0 only the draw 0 is accepted.
C8_AcceptanceThreshold ==
    [][MHStepTaken =>
          \A k \in 1 .. args.N_rand :
              LET p == prob_map[img_i'][prev_sample[img_i'][k]]
                  q == prob_map[img_i'][next_sample'[k]]
                  u == rand_image'[k]
              IN  /\ accept'[k] <=> Leq2(Mul(u, p + 1), Mul(q, RandDen))
                  /\ q > p => accept'[k]
                  /\ (p = ONE /\ q = ONE) => (accept'[k] <=> u <= RandDen - 2)
                  /\ (p = 0 /\ q = 0) => (accept'[k] <=> u = 0)]_vars

C8_Witness ==
    /\ pc = "selected"
    /\ branch = "mh_step"
    /\ \A px \in Pixels : prob_map[img_i][px] = ONE
    /\ \E k \in DOMAIN accept :
          /\ rand_image[k] = RandDen - 1
          /\ ~accept[k]
          /\ select_coords[k] # next_sample[k]

\* C9: every coordinate pair a policy returns, and every stored or proposed
\* one, has its row in 0 .. H-1 and its column in 0 .. W-1.
C9_CoordinatesValid ==
    /\ \A k \in DOMAIN select_coords : select_coords[k] \in Pixels
    /\ \A k \in DOMAIN next_sample : next_sample[k] \in Pixels
    /\ \A im \in Images : \A k \in DOMAIN prev_sample[im] : prev_sample[im][k] \in Pixels
    /\ err # "IndexError"

C9_Witness ==
    /\ pc = "selected"
    /\ branch = "mh_step"
    /\ \E k \in DOMAIN accept :
          /\ accept[k]
          /\ select_coords[k] = <<H - 1, W - 1>>

\* C10: the uniform and the multinomial policy return N_rand pairwise distinct
\* pixels, and the multinomial policy decodes each flat index s it drew to
\* (s div W, s mod W), so that row * W + col = s.
C10_WithoutReplacement ==
    (pc = "selected" /\ branch \in {"none", "multinomial"}) =>
        /\ Len(select_coords) = args.N_rand
        /\ Distinct(select_coords)
        /\ branch = "multinomial" =>
              /\ Len(samples) = args.N_rand
              /\ \A k \in 1 .. args.N_rand :
                    /\ samples[k] \in 0 .. H * W - 1
                    /\ select_coords[k] \in Pixels
                    /\ select_coords[k][1] = samples[k] \div W
                    /\ select_coords[k][1] * W + select_coords[k][2] = samples[k]

C10_Witness ==
    /\ pc = "selected"
    /\ branch = "multinomial"
    /\ args.N_rand = 2
    /\ samples[1] = H * W - 1
    /\ select_coords[1] = <<H - 1, W - 1>>
    /\ select_coords[2][1] = 0

---------------------------------------------------------------------------
(* The heat update of train() *)

\* the pixels rendered in this step: the selection, or with batching the rows
\* and columns of the batch
RenderedPixels ==
    IF args.no_batching THEN select_coords
    ELSE [k \in DOMAIN batch |-> <<batch[k][2], batch[k][3]>>]

\* C11: with adaptive sampling enabled every training step, in single-image mode
\* and in batching mode alike, gets as far as its heat update, and the update
\* is handed the pixels rendered in the step (all pixels with global sampling).
C11_HeatUpdateEveryStep ==
    args.image_sampling =>
        /\ pc # "error"
        /\ pc = "updated" =>
              touched = IF args.global_sampling THEN FullGrid ELSE RenderedPixels

---------------------------------------------------------------------------
(* Degenerate probability mass *)

NonZeroPixels(m) == {px \in Pixels : m[px] > 0}

\* C18: on an image whose probability map has fewer than N_rand non-zero pixels
\* (zero total mass included) the multinomial, the rejection and the
\* Metropolis-Hastings policy still end the selection without an error and
\* with N_rand coordinates.
C18_DegenerateMassAbsorbed ==
    (/\ branch \in {"multinomial", "rejection", "mh_seed", "mh_step"}
     /\ pc \in {"selected", "error"}
     /\ Cardinality(NonZeroPixels(prob_map[img_i])) < args.N_rand)
        => (err = "none" /\ Len(select_coords) = args.N_rand)

---------------------------------------------------------------------------
(* The volume compositor, raw2outputs *)

NonDecreasing(z) == \A k \in 1 .. Len(z) - 1 : z[k] <= z[k + 1]

\* raw2outputs has returned for the depths loc.z_vals
Composited == rpc \in {"coarse", "fine", "built", "done"}

\* 1 + 1e-6
OnePlusTol == FAdd(FOne, <<0, 1, 0>>)

\* C12: for every ray, every field and every non-decreasing depth sequence, the
\* weights that raw2outputs returns are all >= 0 and their sum is at most
\* 1 + 1e-6.
C12_WeightsBounded ==
    (Composited /\ NonDecreasing(loc.z_vals)) =>
        /\ \A k \in DOMAIN loc.out.weights : FLeq(FZero, loc.out.weights[k])
        /\ FLeq(FSum(loc.out.weights), OnePlusTol)

\* an opaque sample behind empty ones: the epsilons of the product lift the sum
\* of the weights above 1
C12_Witness ==
    /\ Composited
    /\ NonDecreasing(loc.z_vals)
    /\ Len(loc.z_vals) >= 3
    /\ FLess(FOne, FSum(loc.out.weights))

\* the example: near = 0, far = 1, four samples at t = 0, 1/3, 2/3, 1, density 1
\* at every sample, a unit direction, no jitter; the coarse pass has returned
UnitFogExample ==
    /\ rpc = "coarse"
    /\ rcall.near = 0 /\ rcall.far = DepthDen /\ rcall.d_norm = 1
    /\ rcall.N_samples = 4 /\ ~rcall.lindisp /\ ~rcall.perturb
    /\ rcall.network_fn = "fog"

\* C13 as stated: in the example the four weights are strictly decreasing in
\* sample order.
C13_StrictlyDecreasing ==
    UnitFogExample =>
        \A k \in 1 .. 3 : FLess(loc.out.weights[k + 1], loc.out.weights[k])

\* C13: in the example the first three weights are strictly decreasing, and the
\* last sample, whose appended distance makes it opaque, takes all the remaining
\* transmittance, which is more than the first weight.
C13_DecreasingButLast ==
    UnitFogExample =>
        /\ FLess(loc.out.weights[2], loc.out.weights[1])
        /\ FLess(loc.out.weights[3], loc.out.weights[2])
        /\ loc.out.weights[4] = Cumprod([k \in 1 .. 4 |-> raw2alpha(1, Dists(loc.z_vals, 1)[k])], 4)
        /\ FLess(loc.out.weights[1], loc.out.weights[4])

C13_Witness ==
    /\ UnitFogExample
    /\ loc.z_vals = <<0, DepthDen \div 3, 2 * (DepthDen \div 3), DepthDen>>
    /\ FLess(FZero, loc.out.weights[3])

\* C14: for a ray whose weights are all exactly zero (zero density at every
\* sample) raw2outputs returns the finite disparity 1 / 1e-10, not NaN or Inf.
C14_ZeroWeightDisparityFinite ==
    (Composited /\ \A k \in DOMAIN loc.out.weights : loc.out.weights[k] = FZero) =>
        loc.out.disp_map = [cls |-> "num", num |-> FOne, den |-> FEps]

---------------------------------------------------------------------------
(* The stratified sampler of render_rays *)

\* the interval of sample k: between the midpoints to its neighbours, the first
\* and the last nominal sample at the ends
LowerBound(z, k) == IF k = 1 THEN z[1] ELSE (z[k - 1] + z[k]) \div 2
UpperBound(z, k) == IF k = Len(z) THEN z[k] ELSE (z[k] + z[k + 1]) \div 2

Within(z, lo, hi) == \A k \in DOMAIN z : lo <= z[k] /\ z[k] <= hi

---------------------------------------------------------------------------
(* The hierarchical pass of render_rays *)

\* how often v occurs in s
Count(s, v) == Cardinality({k \in DOMAIN s : s[k] = v})

Values(s) == {s[k] : k \in DOMAIN s}

\* C16: when N_importance > 0 the depths of the fine pass are
\* N_samples + N_importance many, sorted in non-decreasing order, and as a
\* multiset the union of the coarse depths and the resampled depths.
C16_HierarchicalMerge ==
    (rpc \in {"fine", "built", "done"} /\ rcall.N_importance > 0) =>
        /\ Len(loc.z_vals) = rcall.N_samples + rcall.N_importance
        /\ Len(loc.out.weights) = Len(loc.z_vals)
        /\ NonDecreasing(loc.z_vals)
        /\ \A v \in Values(loc.z_vals) \cup Values(loc.coarse) \cup Values(loc.z_samples) :
              Count(loc.z_vals, v) = Count(loc.coarse, v) + Count(loc.z_samples, v)

\* the resampled depths arrive out of order and one of them twice
C16_Witness ==
    /\ rpc = "fine"
    /\ rcall.N_importance > 0
    /\ \E v \in Values(loc.z_samples) : Count(loc.z_vals, v) >= 2
    /\ loc.coarse \o loc.z_samples # loc.z_vals

\* the coarse pass over the depths it was given: the field network_fn composited
CoarseOutputs ==
    raw2outputs(network_query_fn(loc.coarse, rcall.network_fn, rcall), loc.coarse, rcall.d_norm)

Returned == rpc \in {"built", "done"}

\* C17: render_rays always returns rgb_map, disp_map and acc_map; it returns
\* rgb0, disp0, acc0 and z_std exactly when N_importance > 0, and then rgb0, disp0
\* and acc0 are the outputs of the coarse pass, not those of the fine pass; it
\* returns raw exactly when retraw is set.
C17_ResultShape ==
    Returned =>
        /\ {"rgb_map", "disp_map", "acc_map"} \subseteq DOMAIN loc.ret
        /\ \A k \in {"rgb0", "disp0", "acc0", "z_std"} :
              k \in DOMAIN loc.ret <=> rcall.N_importance > 0
        /\ "raw" \in DOMAIN loc.ret <=> rcall.retraw
        /\ DOMAIN loc.ret \subseteq
              {"rgb_map", "disp_map", "acc_map", "raw", "rgb0", "disp0", "acc0", "z_std"}
        /\ loc.ret["rgb_map"] = loc.out.rgb_map
        /\ loc.ret["disp_map"] = loc.out.disp_map
        /\ loc.ret["acc_map"] = loc.out.acc_map
        /\ rcall.N_importance > 0 =>
              /\ loc.ret["rgb0"] = CoarseOutputs.rgb_map
              /\ loc.ret["disp0"] = CoarseOutputs.disp_map
              /\ loc.ret["acc0"] = CoarseOutputs.acc_map

\* a hierarchical call with retraw whose fine pass differs from its coarse pass
C17_Witness ==
    /\ Returned
    /\ rcall.N_importance > 0
    /\ rcall.retraw
    /\ loc.ret["rgb0"] # loc.ret["rgb_map"]
    /\ loc.ret["acc0"] # loc.ret["acc_map"]
    /\ loc.ret["disp0"] # loc.ret["disp_map"]

---------------------------------------------------------------------------
(* The NaN / Inf report of render_rays *)

\* the keys of ret whose value is NaN or Inf
InvalidKeys == {k \in DOMAIN loc.ret \cap {"disp_map", "disp0"} : loc.ret[k].cls # "num"}

\* C20: the report is not fatal and leaves the result alone: render_rays
\* returns the dictionary it built, whatever the flag and whether or not a value
\* is NaN or Inf; with the flag on every key holding NaN or Inf is reported, with
\* the flag off nothing is.
C20_ReportNonFatal ==
    rpc = "done" =>
        /\ err = "none"
        /\ loc.ret = [k \in RetKeys(rcall) |-> RetValue(loc, k)]
        /\ DEBUG => stdout = InvalidKeys
        /\ ~DEBUG => stdout = {}

\* a ray through empty space, rendered hierarchically with the flag on: both
\* disparities are NaN and both are reported
C20_Witness ==
    /\ rpc = "done"
    /\ DEBUG
    /\ stdout = {"disp_map", "disp0"}
    /\ loc.ret["disp_map"].cls = "nan"

---------------------------------------------------------------------------
(* Point-level chunking in run_network *)

\* the network applied to the embedding of one point and of its ray's direction
PointOutput(r, k) ==
    fn(IF net.viewdirs # <<>>
       THEN <<embed_fn(net.inputs[r][k]), embeddirs_fn(net.viewdirs[r])>>
       ELSE <<embed_fn(net.inputs[r][k])>>)

\* C19: run_network returns one entry per input point, in the order and with the
\* leading shape of the input, each the field at that point: the same for every
\* netchunk >= 1 and without chunking, and the slices it applied the field to
\* hold at most netchunk points each.
C19_PointChunking ==
    /\ net.pc = "done" =>
          net.outputs = [r \in DOMAIN net.inputs |->
                            [k \in DOMAIN net.inputs[r] |-> PointOutput(r, k)]]
    /\ net.netchunk # NoChunk =>
          \A j \in DOMAIN net.parts : Len(net.parts[j]) <= net.netchunk

\* several slices, the last one shorter, over points that differ
C19_Witness ==
    /\ net.pc = "done"
    /\ net.netchunk # NoChunk
    /\ Len(net.parts) >= 2
    /\ Len(net.parts[Len(net.parts)]) < net.netchunk
    /\ Len(net.inputs) >= 2
    /\ net.inputs[1] # net.inputs[2]
    /\ net.viewdirs # <<>>

---------------------------------------------------------------------------
(* The accept_rate scalar of train() *)

\* C21: under the Metropolis-Hastings policy the acceptance rate written at a
\* reporting step is defined and is the rate of that step's own proposal for that
\* step's image, also when the reporting step seeds the chain or falls into the
\* warm-up window.
C21_AcceptRateOfThisStep ==
    [][(pc = "updated" /\ ReportDue(i)) =>
          /\ err' = "none"
          /\ scalars' = Append(scalars, AcceptRate(accept) \o <<i>>)
          /\ accept_of = <<i, img_i>>]_vars

---------------------------------------------------------------------------
(* The warm-up window of train() *)

\* the centred rectangle of the warm-up window
InCrop(px) ==
    /\ (H \div 2) - CropD(H, args.precrop_frac) <= px[1]
    /\ px[1] <= (H \div 2) + CropD(H, args.precrop_frac) - 1
    /\ (W \div 2) - CropD(W, args.precrop_frac) <= px[2]
    /\ px[2] <= (W \div 2) + CropD(W, args.precrop_frac) - 1

\* the selection of this step was drawn from the grid held in coords
DrawnFromCoords ==
    \/ branch \in {"crop", "none", "mh_seed"}
    \/ branch = "rejection" /\ num > args.N_rand

\* C22: on every step i < precrop_iters in single-image mode the N_rand selected
\* coordinates are drawn without replacement from the centred rectangle, so all
\* lie inside it; from step precrop_iters on the configured policy selects over
\* the whole H x W grid.
C22_WarmupWindow ==
    (pc = "selected" /\ args.no_batching) =>
        /\ i < args.precrop_iters =>
              /\ branch = "crop"
              /\ Len(select_coords) = args.N_rand
              /\ Distinct(select_coords)
              /\ \A k \in DOMAIN select_coords : InCrop(select_coords[k])
        /\ ~(i < args.precrop_iters) =>
              /\ branch # "crop"
              /\ DrawnFromCoords => coords = FullGrid

---------------------------------------------------------------------------
(* Re-seeding of the Metropolis-Hastings chain *)

\* the step takes the seeding branch of lines 985-990
MHSeedTaken == pc = "select" /\ pc' = "selected" /\ branch' = "mh_seed"

\* C23: once the Metropolis-Hastings chain of an image has been seeded it is
\* never seeded again: every later step for the image proposes from its current
\* pixel set, whatever that set is.  (Stated for the runs without a warm-up
\* window, where only the policy itself stores pixel sets.)
C23_NeverReseeded ==
    [][(MHSeedTaken /\ args.precrop_iters = 0) => img_i' \notin has_prev]_vars

---------------------------------------------------------------------------
(* Zero-probability pixels under the rejection policy *)

---------------------------------------------------------------------------
(* Epochs of the random ray batching *)

\* the step takes its batch from the shuffled rays
BatchTaken == pc = "select" /\ pc' = "selected" /\ branch' = "batch"

\* C25: at the start of every step the batch cursor satisfies
\* 0 <= i_batch < T, it is reset to 0 exactly when it reaches or passes T, and
\* the batches handed out between two shuffles serve every training ray exactly
\* once.
C25_EpochCoverage ==
    [][BatchTaken =>
          /\ 0 <= i_batch /\ i_batch < Len(rays_rgb)
          /\ i_batch' = 0 <=> i_batch + args.N_rand >= Len(rays_rgb)
          /\ i_batch' # 0 => i_batch' = i_batch + args.N_rand
          /\ i_batch' = 0 =>
                /\ Len(served \o batch') = Len(rays_rgb)
                /\ \A k \in DOMAIN rays_rgb : Count(served \o batch', rays_rgb[k]) = 1]_vars

\* a third epoch has begun, after two shuffles that each followed a short batch
C25_Witness ==
    /\ ~args.no_batching
    /\ pc = "selected"
    /\ branch = "batch"
    /\ Len(rays_rgb) % args.N_rand # 0
    /\ i_batch = args.N_rand
    /\ i = start + 4
    /\ served = batch

\* C26: with random batching every training step receives a batch of exactly
\* N_rand rays, whenever there are at least N_rand training rays.
C26_FullBatches ==
    (~args.no_batching /\ pc = "selected" /\ Len(rays_rgb) >= args.N_rand) =>
        Len(batch) = args.N_rand

---------------------------------------------------------------------------
(* Checkpoints *)

\* the run is started again from its last checkpoint
Restarted == ckpts # {} /\ start' = LatestCkpt.global_step + 1 /\ pc' = "select"
                /\ bound' = {} /\ has_prev' = {} /\ err' = "none" /\ ckpts' = ckpts
                /\ i' = start'

\* C27: a run resumed from the checkpoint that the end of iteration i wrote
\* starts at iteration i + 1, neither repeating nor skipping an iteration, and
\* its learning-rate step counter has the value it has in that iteration of an
\* uninterrupted run.
C27_ResumeAtNextIteration ==
    [][(pc \in {"select", "error"} /\ Restarted) =>
          /\ i' = LatestCkpt.i + 1
          /\ global_step' = i' - 1]_vars

\* C29: the checkpoint of every iteration that is a multiple of i_weights is
\* written, with or without a fine network.
C29_SaveSucceeds ==
    [][(pc = "updated" /\ SaveDue(i)) =>
          /\ err' = "none"
          /\ [i |-> i, global_step |-> global_step] \in ckpts']_vars

---------------------------------------------------------------------------
(* The stored pixel sets of the other images *)

\* a step of the pixel selection of an iteration, whatever its branch
SelectionStep == pc \in {"select", "rejection"} /\ pc' # "select"

\* C28: a selection step that works on image img_i changes no stored pixel set
\* but that of img_i, and a step that draws by the multinomial or by the
\* rejection policy changes none at all.
C28_OnlyOwnPrevSample ==
    [][SelectionStep =>
          /\ \A im \in DOMAIN prev_sample \ {img_i'} : prev_sample'[im] = prev_sample[im]
          /\ branch' \in {"multinomial", "rejection"} => prev_sample' = prev_sample]_vars

\* the chain of one image is seeded while another image holds its own set
C28_Witness ==
    /\ pc = "selected"
    /\ branch = "mh_seed"
    /\ prev_sample[img_i] = select_coords
    /\ \E im \in has_prev \ {img_i} :
          /\ prev_sample[im] # ZeroSample(args.N_rand)
          /\ prev_sample[im] # prev_sample[img_i]

====
